---- MODULE Spec2Model ----
(***************************************************************************)
(* Model of src/app.py, the FastAPI caption editor: the line parser, the   *)
(* trigger analyser, the rule engine, the batch orchestrator and the       *)
(* POST /process_captions handler.                                         *)
(*                                                                         *)
(* A Python str is a sequence of one-character strings, so that every      *)
(* regular expression and str method of the source is computed character   *)
(* by character, in the way re and str compute it.                         *)
(***************************************************************************)
EXTENDS Naturals, Sequences, FiniteSets, TLC

VARIABLES
    phase,           \* position of the process: "idle", "served", "first", "second", ...
    order,           \* iteration order of the set required_phrases in this process
    filename,        \* file.filename of the upload
    lines,           \* the uploaded content after splitlines()
    disk,            \* output_dir: a function from file names to contents
    writes,          \* the files of output_dir the current request has written, in order
    archive,         \* the members of the ZipFile, in the order they were added
    processed_data,  \* what process_captions returned to the handler
    trigger,         \* standard_trigger of the batch (or of the rule-engine run)
    finals,          \* description at line 132, for every parsed entry of the batch
    response,        \* the HTTP response of the request
    raised,          \* the exception process_captions or identify_trigger_token raised
    description,     \* input of a rule-engine run
    run1,            \* result of the rule engine on description
    run2,            \* result of the rule engine on its own output
    entries          \* input of identify_trigger_token: (file_name, description) pairs

vars == <<phase, order, filename, lines, disk, writes, archive, processed_data,
          trigger, finals, response, raised, description, run1, run2, entries>>

(***************************************************************************)
(* Bounds of the model.                                                    *)
(***************************************************************************)
\* lines of one uploaded file
MaxLines == 2
\* words of a description given to the rule engine alone
MaxEngineWords == 3
\* words of a description given to simplify_object_description alone
MaxSimplifyWords == 3
\* entries given to identify_trigger_token alone
MaxEntries == 3

(***************************************************************************)
(* Characters and the str methods the source uses.                         *)
(***************************************************************************)
\* str.isspace() characters that occur in the model's inputs
Whitespace == {" ", "\t"}

\* the characters \w matches
WordChars ==
    {"a", "b", "c", "d", "e", "f", "g", "h", "i", "j", "k", "l", "m", "n", "o", "p",
     "q", "r", "s", "t", "u", "v", "w", "x", "y", "z", "_",
     "0", "1", "2", "3", "4", "5", "6", "7", "8", "9"}

IsSpace(c) == c \in Whitespace

IsWord(c) == c \in WordChars

\* s[i:] with i counted from 1
Tail_from(s, i) == SubSeq(s, i, Len(s))

\* s.startswith(p, i - 1)
MatchAt(s, i, p) ==
    /\ i + Len(p) - 1 <= Len(s)
    /\ SubSeq(s, i, i + Len(p) - 1) = p

startswith(s, p) == MatchAt(s, 1, p)

endswith(s, p) == Len(p) <= Len(s) /\ MatchAt(s, Len(s) - Len(p) + 1, p)

\* p in s
contains(s, p) == \E i \in 1..(Len(s) + 1) : MatchAt(s, i, p)

\* s.replace(old, new) from position i on: leftmost, non-overlapping, all occurrences
RECURSIVE replace_from(_, _, _, _)
replace_from(s, i, old, new) ==
    IF i > Len(s) THEN <<>>
    ELSE IF MatchAt(s, i, old) THEN new \o replace_from(s, i + Len(old), old, new)
    ELSE <<s[i]>> \o replace_from(s, i + 1, old, new)

replace(s, old, new) == replace_from(s, 1, old, new)

RECURSIVE lstrip(_)
lstrip(s) == IF s # <<>> /\ IsSpace(s[1]) THEN lstrip(Tail(s)) ELSE s

RECURSIVE rstrip(_)
rstrip(s) ==
    IF s # <<>> /\ IsSpace(s[Len(s)]) THEN rstrip(SubSeq(s, 1, Len(s) - 1)) ELSE s

strip(s) == rstrip(lstrip(s))

\* s.split(): the maximal runs of non-whitespace characters
RECURSIVE split_from(_, _, _)
split_from(s, i, word) ==
    IF i > Len(s) THEN (IF word = <<>> THEN <<>> ELSE <<word>>)
    ELSE IF IsSpace(s[i])
         THEN (IF word = <<>> THEN <<>> ELSE <<word>>) \o split_from(s, i + 1, <<>>)
         ELSE split_from(s, i + 1, Append(word, s[i]))

split(s) == split_from(s, 1, <<>>)

\* " ".join(words)
RECURSIVE join(_)
join(words) ==
    IF words = <<>> THEN <<>>
    ELSE IF Len(words) = 1 THEN words[1]
    ELSE words[1] \o <<" ">> \o join(Tail(words))

\* " ".join(description.split())
normalize(s) == join(split(s))

\* s.split(",")[0]
RECURSIVE before_comma(_)
before_comma(s) ==
    IF s = <<>> \/ s[1] = "," THEN <<>> ELSE <<s[1]>> \o before_comma(Tail(s))

(***************************************************************************)
(* The regular expressions of the source.                                  *)
(***************************************************************************)
\* \b at the gap before s[i] (i in 1..Len(s)+1)
WordBoundary(s, i) ==
    LET before == i > 1 /\ IsWord(s[i - 1])
        after == i <= Len(s) /\ IsWord(s[i])
    IN before # after

\* length of the match of \b(alts[1]|alts[2]|...)\b starting at i, 0 when none:
\* the first alternative, in the order written, with which the whole pattern matches
RECURSIVE alt_match(_, _, _, _)
alt_match(s, i, alts, k) ==
    IF k > Len(alts) THEN 0
    ELSE IF /\ WordBoundary(s, i)
            /\ MatchAt(s, i, alts[k])
            /\ WordBoundary(s, i + Len(alts[k]))
         THEN Len(alts[k])
    ELSE alt_match(s, i, alts, k + 1)

\* re.search(r"\b(...)\b", s)
re_search_alts(s, alts) == \E i \in 1..Len(s) : alt_match(s, i, alts, 1) > 0

\* re.sub(r"\b(...)\b", "", s) from position i on
RECURSIVE re_sub_alts_from(_, _, _)
re_sub_alts_from(s, i, alts) ==
    IF i > Len(s) THEN <<>>
    ELSE LET n == alt_match(s, i, alts, 1)
         IN IF n > 0 THEN re_sub_alts_from(s, i + n, alts)
            ELSE <<s[i]>> \o re_sub_alts_from(s, i + 1, alts)

re_sub_alts(s, alts) == re_sub_alts_from(s, 1, alts)

\* the lengths n of group 1 with which \b(\w+)\s\1\b matches at i
repeat_groups(s, i) ==
    {n \in 1..Len(s) :
        /\ WordBoundary(s, i)
        /\ i + 2 * n <= Len(s)
        /\ \A j \in i..(i + n - 1) : IsWord(s[j])
        /\ IsSpace(s[i + n])
        /\ MatchAt(s, i + n + 1, SubSeq(s, i, i + n - 1))
        /\ WordBoundary(s, i + 2 * n + 1)}

\* length of group 1 of the match of \b(\w+)\s\1\b at i (\w+ is greedy), 0 when none
repeat_match(s, i) ==
    LET ns == repeat_groups(s, i)
    IN IF ns = {} THEN 0 ELSE CHOOSE n \in ns : \A m \in ns : m <= n

\* re.search(r"\b(\w+)\s\1\b", s)
re_search_repeat(s) == \E i \in 1..Len(s) : repeat_match(s, i) > 0

\* re.sub(r"\b(\w+)\s\1\b", r"\1", s) from position i on: one pass, left to right
RECURSIVE re_sub_repeat_from(_, _)
re_sub_repeat_from(s, i) ==
    IF i > Len(s) THEN <<>>
    ELSE LET n == repeat_match(s, i)
         IN IF n > 0 THEN SubSeq(s, i, i + n - 1) \o re_sub_repeat_from(s, i + 2 * n + 1)
            ELSE <<s[i]>> \o re_sub_repeat_from(s, i + 1)

re_sub_repeat(s) == re_sub_repeat_from(s, 1)

(***************************************************************************)
(* The rule engine.                                                        *)
(***************************************************************************)
\* a log entry: the message, and the values an f-string puts into it
Log(msg, arg, arg2) == [msg |-> msg, arg |-> arg, arg2 |-> arg2]

\* required_phrases (lines 89-93), in the order the source writes the set
required_phrases ==
    <<<<"o", "n", " ", "t", "h", "e", " ", "l", "e", "f", "t">>,
      <<"o", "n", " ", "t", "h", "e", " ", "r", "i", "g", "h", "t">>,
      <<"a", "t", " ", "t", "h", "e", " ", "t", "o", "p">>,
      <<"a", "t", " ", "t", "h", "e", " ", "b", "o", "t", "t", "o", "m">>,
      <<"i", "n", " ", "t", "h", "e", " ", "c", "e", "n", "t", "e", "r">>,
      <<"o", "n", " ", "t", "h", "e", " ", "h", "o", "r", "i", "z", "o", "n">>,
      <<"f", "r", "o", "m", " ", "t", "h", "e", " ", "g", "r", "o", "u", "n", "d">>,
      <<"a", "t", " ", "t", "h", "e", " ", "b", "a", "s", "e">>,
      <<"i", "n", " ", "t", "h", "e", " ", "m", "i", "d", "d", "l", "e">>,
      <<"o", "n", " ", "t", "h", "e", " ", "s", "u", "r", "f", "a", "c", "e">>,
      <<"i", "n", " ", "t", "h", "e", " ", "s", "h", "a", "d", "o", "w">>,
      <<"a", "t", " ", "t", "h", "e", " ", "t", "i", "p">>>>

\* the alternatives of the regular expression of rule 1 (lines 65-66)
subordinate_clauses ==
    <<<<"t", "h", "a", "t", " ", "a", "r", "e">>,
      <<"t", "h", "a", "t", " ", "i", "s">>,
      <<"t", "h", "a", "t", " ", "h", "a", "s">>,
      <<"w", "h", "i", "c", "h", " ", "a", "r", "e">>,
      <<"w", "h", "i", "c", "h", " ", "i", "s">>,
      <<"w", "h", "i", "c", "h", " ", "h", "a", "s">>>>

\* the alternatives of the regular expression of rule 2 (lines 70-71)
auxiliary_verbs ==
    <<<<"i", "s">>,
      <<"a", "r", "e">>,
      <<"w", "a", "s">>,
      <<"w", "e", "r", "e">>,
      <<"h", "a", "s">>,
      <<"h", "a", "v", "e">>,
      <<"h", "a", "d">>,
      <<"d", "o", "e", "s">>,
      <<"d", "o">>,
      <<"d", "i", "d">>>>

\* "the " and "" of phrase.replace("the ", "")
the_ == <<"t", "h", "e", " ">>

RECURSIVE reversed(_)
reversed(s) == IF s = <<>> THEN <<>> ELSE Append(reversed(Tail(s)), s[1])

\* the orders in which "for phrase in required_phrases" can visit the set: a set of
\* str has no specified iteration order; these two put every pair in both orders
PhraseOrders == {required_phrases, reversed(required_phrases)}

\* a description and the logs collected for it: the variables description and
\* logs_for_description of process_captions, description and logs of the functions
Text(d, logs) == [description |-> d, logs |-> logs]

\* what a function returned, taken over by its caller: description = ..., and
\* logs.extend(...) (or append, for the one log or None of process_trigger_token)
extended(st, r) == Text(r.description, st.logs \o r.logs)

\* process_trigger_token: (description, log or None) as (description, logs)
process_trigger_token(d, standard_trigger) ==
    IF ~startswith(d, standard_trigger)
    THEN Text(standard_trigger \o <<",", " ">> \o d,
              <<Log("Added missing trigger token", standard_trigger, <<>>)>>)
    ELSE Text(d, <<>>)

\* one turn of the loop of handle_articles
add_article(st, phrase, short_variant) ==
    IF contains(st.description, short_variant)
    THEN Text(replace(st.description, short_variant, phrase),
              Append(st.logs, Log("Added article in fixed expression",
                                  short_variant, phrase)))
    ELSE st

\* the loop of handle_articles over phrases[k..]
RECURSIVE handle_articles_from(_, _, _)
handle_articles_from(st, phrases, k) ==
    IF k > Len(phrases) THEN st
    ELSE handle_articles_from(
             add_article(st, phrases[k], replace(phrases[k], the_, <<>>)),
             phrases, k + 1)

handle_articles(d, phrases) == handle_articles_from(Text(d, <<>>), phrases, 1)

\* Rule 1 of simplify_object_description
condense_clauses(st) ==
    IF re_search_alts(st.description, subordinate_clauses)
    THEN Text(re_sub_alts(st.description, subordinate_clauses),
              Append(st.logs, Log("Condensed subordinate clauses.", <<>>, <<>>)))
    ELSE st

\* re.sub with count=1: only the first match is deleted
RECURSIVE re_sub_first_from(_, _, _)
re_sub_first_from(s, i, alts) ==
    IF i > Len(s) THEN <<>>
    ELSE IF alt_match(s, i, alts, 1) > 0
         THEN Tail_from(s, i + alt_match(s, i, alts, 1))
         ELSE <<s[i]>> \o re_sub_first_from(s, i + 1, alts)

\* remove_auxiliaries deleting the first auxiliary verb only
remove_first_auxiliary(st) ==
    IF re_search_alts(st.description, auxiliary_verbs)
    THEN Text(re_sub_first_from(st.description, 1, auxiliary_verbs),
              Append(st.logs, Log("Removed auxiliary verbs.", <<>>, <<>>)))
    ELSE st

\* Rule 2 of simplify_object_description
remove_auxiliaries(st) ==
    IF re_search_alts(st.description, auxiliary_verbs)
    THEN Text(re_sub_alts(st.description, auxiliary_verbs),
              Append(st.logs, Log("Removed auxiliary verbs.", <<>>, <<>>)))
    ELSE st

\* Rule 3 of simplify_object_description
collapse_repeats(st) ==
    IF re_search_repeat(st.description)
    THEN Text(re_sub_repeat(st.description),
              Append(st.logs, Log("Simplified repetitive phrases.", <<>>, <<>>)))
    ELSE st

\* clean_up_logs without the comparison
clean_up_logs_always(cleaned, original_description) ==
    <<Log("Ensured clarity and grammatical correctness.", <<>>, <<>>)>>

\* the log of the final clean-up: cleaned is the joined text, original_description
\* the argument of simplify_object_description
clean_up_logs(cleaned, original_description) ==
    IF cleaned # original_description
    THEN <<Log("Ensured clarity and grammatical correctness.", <<>>, <<>>)>>
    ELSE <<>>

\* the final clean-up of simplify_object_description, and its return
clean_up(st, original_description) ==
    Text(strip(normalize(st.description)),
         st.logs \o clean_up_logs(normalize(st.description), original_description))

simplify_object_description(d) ==
    clean_up(collapse_repeats(remove_auxiliaries(condense_clauses(Text(d, <<>>)))), d)

\* line 132 and the values lines 135-143 read: original is original_description,
\* entered the argument of the call of line 128
finished(d, entered, st) ==
    [original |-> strip(d),
     entered |-> entered,
     description |-> normalize(st.description),
     logs |-> st.logs]

\* lines 123-125, from the description and the log that step 1 left
articles_handled(st, phrases) == extended(st, handle_articles(st.description, phrases))

\* lines 127-132, from the description and the logs that steps 1 and 2 left
simplified(d, st) ==
    finished(d, st.description, extended(st, simplify_object_description(st.description)))

\* lines 115-132 of process_captions for one parsed description: the three steps
\* in their fixed order, then the final " ".join(description.split())
rule_engine(d, standard_trigger, phrases) ==
    simplified(d, articles_handled(process_trigger_token(d, standard_trigger), phrases))

(***************************************************************************)
(* The line parser.                                                        *)
(***************************************************************************)
dot_txt == <<".", "t", "x", "t">>

\* the ends k of group 1 with which ^(.*\.txt):\s*(.+) matches the line: ".txt" ends
\* at k, ":" follows, and at least one character is left for (.+)
match_ends(line) ==
    {k \in 1..Len(line) :
        /\ k >= Len(dot_txt)
        /\ MatchAt(line, k - Len(dot_txt) + 1, dot_txt)
        /\ k + 2 <= Len(line)
        /\ line[k + 1] = ":"}

\* re.match(...) is not None
line_matches(line) == match_ends(line) # {}

\* the two groups of the match: .* is greedy, so group 1 ends at the last possible
\* place; \s* is greedy, but gives one character back when nothing else is left
extract_file_and_description(line) ==
    LET k == CHOOSE k \in match_ends(line) : \A m \in match_ends(line) : m <= k
        rest == Tail_from(line, k + 2)
    IN <<SubSeq(line, 1, k),
         IF lstrip(rest) = <<>> THEN <<rest[Len(rest)]>> ELSE lstrip(rest)>>

(***************************************************************************)
(* The trigger analyser.                                                   *)
(***************************************************************************)
\* the list tokens of line 50
RECURSIVE trigger_tokens(_)
trigger_tokens(parsed) ==
    IF parsed = <<>> THEN <<>>
    ELSE LET d == parsed[1][2]
         IN (IF contains(d, <<",">>) THEN <<strip(before_comma(d))>> ELSE <<>>)
            \o trigger_tokens(Tail(parsed))

\* Counter(tokens)[tok]
token_count(tokens, tok) == Cardinality({i \in 1..Len(tokens) : tokens[i] = tok})

\* most_common_from with >= for >: among equal counts the last one wins
RECURSIVE most_common_last(_, _, _)
most_common_last(tokens, k, best) ==
    IF k > Len(tokens) THEN best
    ELSE most_common_last(
             tokens, k + 1,
             IF token_count(tokens, tokens[k]) >= token_count(tokens, best)
             THEN tokens[k] ELSE best)

\* max(counter.items(), key=count), which most_common(1) is: the items are visited in
\* the order the keys were first inserted; best is replaced by a strictly larger one
RECURSIVE most_common_from(_, _, _)
most_common_from(tokens, k, best) ==
    IF k > Len(tokens) THEN best
    ELSE most_common_from(
             tokens, k + 1,
             IF token_count(tokens, tokens[k]) > token_count(tokens, best)
             THEN tokens[k] ELSE best)

\* identify_trigger_token when tokens is not empty ([0] of an empty list raises)
identify_trigger_token(parsed) ==
    LET tokens == trigger_tokens(parsed)
    IN most_common_from(tokens, 2, tokens[1])

(***************************************************************************)
(* The batch orchestrator.                                                 *)
(***************************************************************************)
\* is_kept without the filter: blank lines reach the parser
is_kept_always(line) == TRUE

\* keeps "for line in lines if line.strip()"
is_kept(line) == strip(line) # <<>>

RECURSIVE kept_lines(_)
kept_lines(ls) ==
    IF ls = <<>> THEN <<>>
    ELSE (IF is_kept(ls[1]) THEN <<ls[1]>> ELSE <<>>) \o kept_lines(Tail(ls))

\* change_records without the comparison: unchanged entries are returned too
change_records_unfiltered(file_name, r) ==
    <<[file_name |-> strip(file_name),
       original |-> r.original,
       corrected |-> strip(r.description),
       logs |-> r.logs]>>

\* lines 135-143 for one entry: the entry's ChangeRecord when it changed, nothing else
change_records(file_name, r) ==
    IF r.description = r.original THEN <<>>
    ELSE <<[file_name |-> strip(file_name),
            original |-> r.original,
            corrected |-> strip(r.description),
            logs |-> r.logs]>>

\* one turn of the loop of lines 114-143: r is what the rules made of the entry,
\* more what the later turns give
entry_done(file_name, r, more) ==
    [finals |-> <<r.description>> \o more.finals,
     processed_data |-> change_records(file_name, r) \o more.processed_data]

\* the loop of lines 114-143 over parsed[k..]
RECURSIVE process_entries(_, _, _, _)
process_entries(parsed, k, standard_trigger, phrases) ==
    IF k > Len(parsed) THEN [finals |-> <<>>, processed_data |-> <<>>]
    ELSE entry_done(parsed[k][1],
                    rule_engine(parsed[k][2], standard_trigger, phrases),
                    process_entries(parsed, k + 1, standard_trigger, phrases))

NoText == <<>>

\* what process_captions raised (raised, message, line), or returned
Outcome(exception, message, line, standard_trigger, done) ==
    [raised |-> exception, message |-> message, line |-> line,
     standard_trigger |-> standard_trigger,
     finals |-> done.finals, processed_data |-> done.processed_data]

NothingDone == [finals |-> <<>>, processed_data |-> <<>>]

\* lines 114-145, with the trigger token found
with_trigger(parsed, standard_trigger, phrases) ==
    Outcome("", "", NoText, standard_trigger,
            process_entries(parsed, 1, standard_trigger, phrases))

\* lines 112-145: [0] of the empty list most_common(1) gives raises IndexError
analysed(parsed, phrases) ==
    IF trigger_tokens(parsed) = <<>>
    THEN Outcome("IndexError", "list index out of range", NoText, NoText, NothingDone)
    ELSE with_trigger(parsed, identify_trigger_token(parsed), phrases)

\* the lines of kept that extract_file_and_description raises ValueError for
malformed(kept) == {i \in 1..Len(kept) : ~line_matches(kept[i])}

\* lines 109-145: the list comprehension stops at the first line that raises
parsed_from(kept, bad, phrases) ==
    IF bad # {}
    THEN Outcome("ValueError", "Invalid line format: ",
                 kept[CHOOSE i \in bad : \A j \in bad : i <= j], NoText, NothingDone)
    ELSE analysed([i \in 1..Len(kept) |-> extract_file_and_description(kept[i])],
                  phrases)

kept_parsed(kept, phrases) == parsed_from(kept, malformed(kept), phrases)

\* process_captions: what it raises, or what it returns
process_captions(ls, phrases) == kept_parsed(kept_lines(ls), phrases)

(***************************************************************************)
(* The handler of POST /process_captions and its files.                    *)
(***************************************************************************)
\* "updated_captions.txt"
log_file_name == <<"u", "p", "d", "a", "t", "e", "d", "_", "c", "a", "p", "t", "i", "o", "n", "s", ".", "t", "x", "t">>

\* the content of a file: the text written with f.write, and for the log file the
\* blocks of four lines and a blank line, one per write of lines 173-176
TextFile(text) == [text |-> text, blocks |-> <<>>]

LogFile(blocks) == [text |-> NoText, blocks |-> blocks]

\* open(os.path.join(output_dir, name), "w") ... write(content): creates or truncates
write_file(d, name, content) ==
    [n \in (DOMAIN d) \cup {name} |-> IF n = name THEN content ELSE d[n]]

\* zip_write with one member per name: a later member replaces the earlier one
RECURSIVE without_member(_, _)
without_member(zip, name) ==
    IF zip = <<>> THEN <<>>
    ELSE (IF zip[1].name = name THEN <<>> ELSE <<zip[1]>>)
         \o without_member(Tail(zip), name)

zip_write_replacing(zip, d, name) ==
    Append(without_member(zip, name), [name |-> name, content |-> d[name]])

\* zipf.write(file_path, arcname): reads the file now and appends a member, also when
\* a member of that name is already in the archive
zip_write(zip, d, name) == Append(zip, [name |-> name, content |-> d[name]])

\* lines 164-167 for one entry, the file being written already (d2)
caption_added(st, d2, name) ==
    [disk |-> d2,
     writes |-> Append(st.writes, name),
     archive |-> zip_write(st.archive, d2, name)]

\* the loop of lines 163-167 over processed_data[k..]
RECURSIVE write_captions(_, _, _)
write_captions(st, data, k) ==
    IF k > Len(data) THEN st
    ELSE write_captions(
             caption_added(
                 st,
                 write_file(st.disk, data[k].file_name, TextFile(data[k].corrected)),
                 data[k].file_name),
             data, k + 1)

\* the four lines lines 173-176 write for one entry; Log holds the logs that
\* '; '.join puts on one line
log_block(rec) ==
    [File |-> rec.file_name, Original |-> rec.original,
     Edited |-> rec.corrected, Log |-> rec.logs]

\* lines 170-177: the consolidated log file and its member
write_log(st, data) ==
    caption_added(
        st,
        write_file(st.disk, log_file_name,
                   LogFile([i \in 1..Len(data) |-> log_block(data[i])])),
        log_file_name)

\* an HTTP response: the status, what the body is ("detail" of an HTTPException,
\* "json", "file", or "error" for the server's own answer to an unhandled exception)
Response(route, status, kind, msg, arg) ==
    [route |-> route, status |-> status, kind |-> kind, msg |-> msg, arg |-> arg]

NoResponse == Response("", 0, "", "", NoText)

\* what upload_file returns after line 177: the function ends there without a
\* return statement (lines 183-184 stand after the return of test_root), so it
\* returns None, which the framework sends as the JSON body null with status 200
upload_result == Response("/process_captions", 200, "json", "null", NoText)

\* what a request leaves behind, and its response
Served(r, st, answer) ==
    [raised |-> r.raised, standard_trigger |-> r.standard_trigger,
     finals |-> r.finals, processed_data |-> r.processed_data,
     disk |-> st.disk, writes |-> st.writes, archive |-> st.archive,
     response |-> answer]

Untouched(d) == [disk |-> d, writes |-> <<>>, archive |-> <<>>]

\* lines 154-177, r being what process_captions raised or returned: ValueError is
\* caught and answered with 400; any other exception leaves the handler, and the
\* server answers 500
handled(r, d) ==
    IF r.raised = "ValueError"
    THEN Served(r, Untouched(d),
                Response("/process_captions", 400, "detail", r.message, r.line))
    ELSE IF r.raised # ""
    THEN Served(r, Untouched(d),
                Response("/process_captions", 500, "error",
                         "Internal Server Error", NoText))
    ELSE Served(r,
                write_log(write_captions(Untouched(d), r.processed_data, 1),
                          r.processed_data),
                upload_result)

\* upload_file: the response, and what the request leaves behind
upload_file(fn, ls, phrases, d) ==
    IF ~endswith(fn, dot_txt)
    THEN Served(Outcome("HTTPException", "", NoText, NoText, NothingDone),
                Untouched(d),
                Response("/process_captions", 400, "detail",
                         "Only .txt files are supported.", NoText))
    ELSE handled(process_captions(ls, phrases), d)

\* test_root
test_root == Response("/", 200, "json", "{\"status\": \"API is working!\"}", NoText)

(***************************************************************************)
(* Inputs.                                                                 *)
(***************************************************************************)
\* the texts of exactly n words of W, separated by separators of S
RECURSIVE TextsOf(_, _, _)
TextsOf(W, S, n) ==
    IF n = 1 THEN W
    ELSE {t \o s \o w : t \in TextsOf(W, S, n - 1), s \in S, w \in W}

TextsUpTo(W, S, n) == UNION {TextsOf(W, S, k) : k \in 1..n}

\* all sequences of at most n elements of X
SeqsUpTo(X, n) == UNION {[1..k -> X] : k \in 0..n}

\* file.filename of an upload
UploadNames == {<<"x", ".", "t", "x", "t">>, <<"x", ".", "c", "s", "v">>}

\* the file names the uploaded lines give
FileNames == {<<"a", ".", "t", "x", "t">>, log_file_name}

\* descriptions of the uploaded lines: one that starts with its own candidate "c",
\* one whose candidate "is" is an auxiliary verb, one without a comma and with a
\* repeated word, one with trailing whitespace, one that is a space alone
SampleDescriptions ==
    {<<"c", ",", " ", "d">>,
     <<"i", "s", ",", " ", "d">>,
     <<"d", " ", "d">>,
     <<"c", ",", "d", " ">>,
     <<>>}

\* lines that name no file: an empty one, a blank one, one without ".txt:", one
\* with nothing after the colon
BareLines ==
    {<<>>,
     <<" ", "\t">>,
     <<"c", ",", " ", "d">>,
     <<"a", ".", "t", "x", "t", ":">>}

SampleLines ==
    {f \o <<":", " ">> \o d : f \in FileNames, d \in SampleDescriptions} \cup BareLines

Batches == SeqsUpTo(SampleLines, MaxLines)

\* output_dir when the request arrives: empty, or holding a file an earlier request
\* left there
InitialDisks ==
    {<<>>, write_file(<<>>, <<"a", ".", "t", "x", "t">>, TextFile(<<"o", "l", "d">>))}

EngineWords == {<<"c">>, <<"i", "s">>, <<"o", "n">>, <<"l", "e", "f", "t">>}

EngineSeps == {<<" ">>, <<",">>, <<"\t">>}

EngineTexts == TextsUpTo(EngineWords, EngineSeps, MaxEngineWords)

EngineTriggers == {<<"c">>, <<"i", "s">>}

SimplifyWords == {<<"c">>, <<"i", "s">>, <<"t", "h", "a", "t">>}

SimplifySeps == {<<" ">>, <<",">>, <<"\t">>}

SimplifyTexts == TextsUpTo(SimplifyWords, SimplifySeps, MaxSimplifyWords)

\* descriptions the parser can give to the trigger analyser: a word or none, a
\* space or none, then nothing, a comma, or a comma and more; group 2 of the
\* parser's pattern is not empty and starts with whitespace only when it is one
\* whitespace character
TriggerTexts ==
    {t \in {w \o gap \o rest :
                w \in {<<>>, <<"c">>, <<"d">>},
                gap \in {<<>>, <<" ">>},
                rest \in {<<>>, <<",">>, <<",", "d">>}} :
        t # <<>> /\ (IsSpace(t[1]) => Len(t) = 1)}

EntryBatches ==
    SeqsUpTo({<<<<"a", ".", "t", "x", "t">>, t>> : t \in TriggerTexts}, MaxEntries)

(***************************************************************************)
(* The server: one upload, and the health check.                           *)
(***************************************************************************)
NoRun == [original |-> NoText, entered |-> NoText, description |-> NoText, logs |-> <<>>]

Quiet ==
    /\ filename = NoText /\ lines = <<>> /\ writes = <<>> /\ archive = <<>>
    /\ processed_data = <<>> /\ trigger = NoText /\ finals = <<>>
    /\ response = NoResponse /\ raised = ""
    /\ description = NoText /\ run1 = NoRun /\ run2 = NoRun /\ entries = <<>>

Init ==
    /\ phase = "idle"
    /\ order \in PhraseOrders
    /\ disk \in InitialDisks
    /\ Quiet

UploadFile ==
    /\ phase = "idle"
    /\ \E fn \in UploadNames, ls \in Batches :
        \E out \in {upload_file(fn, ls, order, disk)} :
            /\ filename' = fn
            /\ lines' = ls
            /\ raised' = out.raised
            /\ trigger' = out.standard_trigger
            /\ finals' = out.finals
            /\ processed_data' = out.processed_data
            /\ disk' = out.disk
            /\ writes' = out.writes
            /\ archive' = out.archive
            /\ response' = out.response
    /\ phase' = "served"
    /\ UNCHANGED <<order, description, run1, run2, entries>>

TestRoot ==
    /\ phase \in {"idle", "served"}
    /\ response' = test_root
    /\ UNCHANGED <<phase, order, filename, lines, disk, writes, archive, processed_data,
                   trigger, finals, raised, description, run1, run2, entries>>

Next == UploadFile \/ TestRoot

Spec == Init /\ [][Next]_vars

(***************************************************************************)
(* The rule engine alone: one description, run twice.                      *)
(***************************************************************************)
InitEngine ==
    /\ phase = "engine"
    /\ order \in PhraseOrders
    /\ disk = <<>>
    /\ filename = NoText /\ lines = <<>> /\ writes = <<>> /\ archive = <<>>
    /\ processed_data = <<>> /\ finals = <<>> /\ response = NoResponse /\ raised = ""
    /\ run1 = NoRun /\ run2 = NoRun /\ entries = <<>>
    /\ description \in EngineTexts
    /\ trigger \in EngineTriggers

FirstRun ==
    /\ phase = "engine"
    /\ run1' = rule_engine(description, trigger, order)
    /\ phase' = "first"
    /\ UNCHANGED <<order, filename, lines, disk, writes, archive, processed_data,
                   trigger, finals, response, raised, description, run2, entries>>

SecondRun ==
    /\ phase = "first"
    /\ run2' = rule_engine(run1.description, trigger, order)
    /\ phase' = "second"
    /\ UNCHANGED <<order, filename, lines, disk, writes, archive, processed_data,
                   trigger, finals, response, raised, description, run1, entries>>

NextEngine == FirstRun \/ SecondRun

SpecEngine == InitEngine /\ [][NextEngine]_vars

(***************************************************************************)
(* simplify_object_description alone: one description, simplified twice.   *)
(***************************************************************************)
twice_run(d, r) ==
    [original |-> d, entered |-> d, description |-> r.description, logs |-> r.logs]

simplify_run(d) == twice_run(d, simplify_object_description(d))

InitSimplify ==
    /\ phase = "simplify"
    /\ order = required_phrases
    /\ disk = <<>>
    /\ filename = NoText /\ lines = <<>> /\ writes = <<>> /\ archive = <<>>
    /\ processed_data = <<>> /\ finals = <<>> /\ response = NoResponse /\ raised = ""
    /\ run1 = NoRun /\ run2 = NoRun /\ entries = <<>>
    /\ trigger = NoText
    /\ description \in SimplifyTexts

SimplifyOnce ==
    /\ phase = "simplify"
    /\ run1' = simplify_run(description)
    /\ phase' = "once"
    /\ UNCHANGED <<order, filename, lines, disk, writes, archive, processed_data,
                   trigger, finals, response, raised, description, run2, entries>>

SimplifyAgain ==
    /\ phase = "once"
    /\ run2' = simplify_run(run1.description)
    /\ phase' = "twice"
    /\ UNCHANGED <<order, filename, lines, disk, writes, archive, processed_data,
                   trigger, finals, response, raised, description, run1, entries>>

NextSimplify == SimplifyOnce \/ SimplifyAgain

SpecSimplify == InitSimplify /\ [][NextSimplify]_vars

(***************************************************************************)
(* The trigger analyser alone.                                             *)
(***************************************************************************)
InitTrigger ==
    /\ phase = "parsed"
    /\ order = required_phrases
    /\ disk = <<>>
    /\ filename = NoText /\ lines = <<>> /\ writes = <<>> /\ archive = <<>>
    /\ processed_data = <<>> /\ finals = <<>> /\ response = NoResponse /\ raised = ""
    /\ run1 = NoRun /\ run2 = NoRun /\ description = NoText
    /\ trigger = NoText
    /\ entries \in EntryBatches

IdentifyTrigger ==
    /\ phase = "parsed"
    /\ IF trigger_tokens(entries) = <<>>
       THEN raised' = "IndexError" /\ trigger' = trigger /\ phase' = "failed"
       ELSE raised' = raised /\ trigger' = identify_trigger_token(entries)
            /\ phase' = "identified"
    /\ UNCHANGED <<order, filename, lines, disk, writes, archive, processed_data,
                   finals, response, description, run1, run2, entries>>

NextTrigger == IdentifyTrigger

SpecTrigger == InitTrigger /\ [][NextTrigger]_vars

(***************************************************************************)
(* What the claims speak of.                                               *)
(***************************************************************************)
\* the upload has been answered, and the answer is still the last response
UploadServed == phase = "served" /\ response.route = "/process_captions"

\* the upload's filename ends in .txt
Accepted == endswith(filename, dot_txt)

\* the upload parsed and had a trigger token
Processed == UploadServed /\ Accepted /\ raised = ""

Blank(line) == \A j \in 1..Len(line) : IsSpace(line[j])

\* <text ending in .txt>: <non-empty description>
WellFormed(line) ==
    \E k \in 1..Len(line) :
        /\ endswith(SubSeq(line, 1, k), dot_txt)
        /\ k + 2 <= Len(line)
        /\ line[k + 1] = ":"

\* the lines of the upload that are neither blank nor well formed
Offending == {i \in 1..Len(lines) : ~Blank(lines[i]) /\ ~WellFormed(lines[i])}

HasComma(d) == \E i \in 1..Len(d) : d[i] = ","

\* the whitespace-trimmed text before the first comma of d
Candidate(d) ==
    LET first == CHOOSE i \in 1..Len(d) : d[i] = "," /\ \A j \in 1..(i - 1) : d[j] # ","
    IN strip(SubSeq(d, 1, first - 1))

\* the entries the upload's non-blank lines parse to
ParsedEntries ==
    [i \in 1..Len(kept_lines(lines)) |->
        extract_file_and_description(kept_lines(lines)[i])]

HasLog(logs, m) == \E k \in 1..Len(logs) : logs[k].msg = m

LogCount(logs, m) == Cardinality({k \in 1..Len(logs) : logs[k].msg = m})

TriggerLog == "Added missing trigger token"
ArticleLog == "Added article in fixed expression"
ClauseLog == "Condensed subordinate clauses."
AuxiliaryLog == "Removed auxiliary verbs."
RepeatLog == "Simplified repetitive phrases."
ClarityLog == "Ensured clarity and grammatical correctness."

(***************************************************************************)
(* C1: when a non-blank line of an accepted upload is malformed, the       *)
(* request ends with no record, an error that carries that line, status    *)
(* 400 with the message, and nothing written to output_dir or the archive; *)
(* when only blank lines fail the pattern, there is no such failure.       *)
(***************************************************************************)
C1_MalformedLineRejectsBatch ==
    (UploadServed /\ Accepted) =>
        IF Offending # {}
        THEN /\ raised = "ValueError"
             /\ processed_data = <<>> /\ finals = <<>>
             /\ response.status = 400 /\ response.kind = "detail"
             /\ response.msg = "Invalid line format: "
             /\ \E i \in Offending : response.arg = lines[i]
             /\ writes = <<>> /\ archive = <<>> /\ disk \in InitialDisks
        ELSE raised # "ValueError" /\ response.status # 400

\* a well-formed line followed by a malformed one, answered with 400
C1_Witness ==
    /\ UploadServed /\ Accepted /\ Len(lines) = 2
    /\ WellFormed(lines[1]) /\ HasComma(lines[1]) /\ 2 \in Offending
    /\ response.status = 400 /\ response.arg = lines[2]

(***************************************************************************)
(* C2: the records returned are exactly the parsed entries whose final     *)
(* text differs from the trimmed original description, in input order;     *)
(* original is the trimmed description and corrected differs from it.      *)
(***************************************************************************)
C2_ChangedEntriesInOrder ==
    Processed =>
        LET Changed == {i \in 1..Len(ParsedEntries) :
                            finals[i] # strip(ParsedEntries[i][2])}
            Rank(i) == Cardinality({m \in Changed : m <= i})
        IN /\ Len(finals) = Len(ParsedEntries)
           /\ Len(processed_data) = Cardinality(Changed)
           /\ \A i \in Changed :
                /\ processed_data[Rank(i)].file_name = strip(ParsedEntries[i][1])
                /\ processed_data[Rank(i)].original = strip(ParsedEntries[i][2])
                /\ processed_data[Rank(i)].corrected = finals[i]
           /\ \A j \in 1..Len(processed_data) :
                processed_data[j].corrected # processed_data[j].original

\* two entries, the first unchanged and dropped, the second changed and returned
C2_Witness ==
    /\ Processed /\ Len(finals) = 2 /\ Len(processed_data) = 1
    /\ finals[1] = strip(ParsedEntries[1][2])
    /\ processed_data[1].corrected = finals[2]

(***************************************************************************)
(* C3: with a comma in at least one description, identify_trigger_token    *)
(* returns the trimmed text before the first comma that is most frequent   *)
(* among the descriptions with a comma, and among the most frequent ones   *)
(* the one that occurs first.                                              *)
(***************************************************************************)
C3_MostFrequentEarliestCandidate ==
    LET I == {i \in 1..Len(entries) : HasComma(entries[i][2])}
        Cand(i) == Candidate(entries[i][2])
        Count(t) == Cardinality({i \in I : Cand(i) = t})
        First(t) == CHOOSE i \in I : Cand(i) = t /\ \A j \in I : Cand(j) = t => i <= j
    IN (phase # "parsed" /\ I # {}) =>
        /\ phase = "identified"
        /\ \E i \in I : trigger = Cand(i)
        /\ \A j \in I :
            /\ Count(Cand(j)) <= Count(trigger)
            /\ Count(Cand(j)) = Count(trigger) => First(trigger) <= First(Cand(j))

\* three entries: one without a comma, two with different candidates, a tie that
\* the earlier candidate wins although a space is trimmed from it
C3_Witness ==
    /\ phase = "identified" /\ Len(entries) = 3
    /\ ~HasComma(entries[1][2])
    /\ HasComma(entries[2][2]) /\ HasComma(entries[3][2])
    /\ Candidate(entries[2][2]) # Candidate(entries[3][2])
    /\ Candidate(entries[2][2]) # before_comma(entries[2][2])
    /\ trigger = Candidate(entries[2][2])

(***************************************************************************)
(* C4: an accepted upload whose lines parse and give a trigger token is    *)
(* answered with status 200 and the ZIP archive as the response.           *)
(***************************************************************************)
C4_ArchiveReturned ==
    Processed => response.status = 200 /\ response.kind = "file"

C6_NoTriggerAnsweredLikeMalformedLine ==
    (/\ UploadServed /\ Accepted /\ Offending = {}
     /\ \A i \in 1..Len(ParsedEntries) : ~HasComma(ParsedEntries[i][2])) =>
        /\ raised # ""
        /\ processed_data = <<>> /\ writes = <<>> /\ archive = <<>>
        /\ response.status = 400 /\ response.kind = "detail" /\ response.msg # ""

(***************************************************************************)
(* C7: the rule engine run on its own output, with the same trigger token, *)
(* logs no added trigger token and no added article.                       *)
(***************************************************************************)
C7_SecondRunAddsNothing ==
    phase = "second" =>
        /\ ~HasLog(run2.logs, TriggerLog)
        /\ ~HasLog(run2.logs, ArticleLog)

(***************************************************************************)
(* C8, as claimed: simplify_object_description run on its own output       *)
(* returns the same text and no log.                                       *)
(***************************************************************************)
C8_SecondPassSilent ==
    phase = "twice" => run2.description = run1.description /\ run2.logs = <<>>

(***************************************************************************)
(* C8, amended: the second pass never logs condensed clauses or removed    *)
(* auxiliary verbs; it returns the same text and no log unless the first   *)
(* output still holds an adjacent repeated word, and then it logs the      *)
(* collapse and the clean-up, and nothing else.                            *)
(***************************************************************************)
C8_SecondPassOnlyCollapses ==
    phase = "twice" =>
        /\ ~HasLog(run2.logs, ClauseLog)
        /\ ~HasLog(run2.logs, AuxiliaryLog)
        /\ IF re_search_repeat(run1.description)
           THEN /\ run2.description # run1.description
                /\ Len(run2.logs) = 2
                /\ run2.logs[1].msg = RepeatLog /\ run2.logs[2].msg = ClarityLog
           ELSE run2.description = run1.description /\ run2.logs = <<>>

\* two identical words with only an auxiliary verb between them: the first pass
\* deletes the verb and collapses nothing, the second pass collapses the pair
C8_Witness ==
    /\ phase = "twice"
    /\ HasLog(run1.logs, AuxiliaryLog) /\ ~HasLog(run1.logs, RepeatLog)
    /\ HasLog(run2.logs, RepeatLog)

(***************************************************************************)
(* C9, as claimed: the clean-up log is appended once exactly when the      *)
(* final text differs from the description before step 1.                  *)
(***************************************************************************)
C9_ClarityLogAgainstOriginal ==
    phase = "first" =>
        LogCount(run1.logs, ClarityLog) = (IF run1.description # description THEN 1 ELSE 0)

(***************************************************************************)
(* C9, amended: the clean-up log is appended once, as the last log, exactly*)
(* when the normalized text differs from the description that entered      *)
(* simplify_object_description, after steps 1 and 2; an added trigger      *)
(* token or article alone brings no such log.                              *)
(***************************************************************************)
C9_ClarityLogAgainstSimplifyInput ==
    phase = "first" =>
        /\ LogCount(run1.logs, ClarityLog) =
               (IF run1.description # run1.entered THEN 1 ELSE 0)
        /\ HasLog(run1.logs, ClarityLog) =>
               run1.logs[Len(run1.logs)].msg = ClarityLog

\* an entry whose only change is the added trigger token, without the log
C9_Witness ==
    /\ phase = "first"
    /\ run1.description # description
    /\ Len(run1.logs) = 1 /\ run1.logs[1].msg = TriggerLog

(***************************************************************************)
(* C10: the final description of every parsed entry starts with the        *)
(* trigger token of its batch.                                             *)
(***************************************************************************)
C10_FinalStartsWithTrigger ==
    Processed => \A i \in 1..Len(finals) : startswith(finals[i], trigger)

====
